---------------------------- MODULE Spec2Model ----------------------------
(* Model of src/app.py: the batch loop that, for every uploaded PDF, asks  *)
(* the vision model for a file name, drops blank back pages and appends    *)
(* the filtered document to processed_files, then packs a ZIP.             *)
(*                                                                         *)
(* A page is described by what its 2x rendering contains: the number of    *)
(* luminance samples (size) and how many of them are dark (luminance 0),   *)
(* faint (luminance 249) and edge (luminance 250); the rest are 255.       *)
(* corrupt = TRUE means get_pixmap raises for the page.                    *)
(* A file name and an AI answer are sequences of tokens; ".pdf", "\n",     *)
(* " " and the nine characters the sanitiser removes are tokens of their   *)
(* own, every other token stands for a run of ordinary characters.         *)
EXTENDS Integers, Sequences, FiniteSets

VARIABLES
    uploaded_files,   \* st.file_uploader result: sequence of [name, pages]
    index,            \* enumerate() counter of the batch loop (0-based)
    pc,               \* position of the script
    doc,              \* pages of the source document opened at line 77
    doc_open,         \* doc has been opened and not yet closed (line 98)
    new_base_name,    \* line 82
    new_doc,          \* output document: sequence of [idx, page]
    i,                \* loop variable of the page filter loop (0-based)
    processed_files,  \* line 68 / 96: sequence of [name, data]
    zip_file,         \* [built, entries]: the archive written at 109-112
    error,            \* which raise aborted the script ("" = none)
    ai_failed,        \* history: generate_content raised for this document
    visited,          \* history: page indices the filter loop has visited
    detector_calls    \* history: is_blank_page calls [idx, raised, result]

vars == <<uploaded_files, index, pc, doc, doc_open, new_base_name, new_doc, i,
          processed_files, zip_file, error, ai_failed, visited, detector_calls>>

--------------------------------------------------------------------------
(* Bounds *)

MaxPages == 4
MaxFiles == 2

--------------------------------------------------------------------------
(* Pages and their rendering *)

Pg(size, dark, faint, edge, corrupt) ==
    [size |-> size, dark |-> dark, faint |-> faint, edge |-> edge,
     corrupt |-> corrupt]

WhitePage    == Pg(200, 0, 0, 0, FALSE)    \* pure white
SpeckPage    == Pg(200, 1, 0, 0, FALSE)    \* 0.5 % ink
BoundaryPage == Pg(200, 2, 0, 0, FALSE)    \* exactly 1 % ink
InkPage      == Pg(200, 4, 0, 0, FALSE)    \* 2 % ink
FaintPage    == Pg(100, 0, 3, 0, FALSE)    \* 3 % at luminance 249
EdgePage     == Pg(100, 0, 0, 60, FALSE)   \* 60 % at luminance exactly 250
CorruptPage  == Pg(100, 0, 0, 0, TRUE)     \* cannot be rendered

PageKinds ==
    {WhitePage, SpeckPage, BoundaryPage, InkPage, FaintPage, EdgePage,
     CorruptPage}

\* mutant: a rendering failure is swallowed
GetPixmapNeverRaises(page) == FALSE

\* page.get_pixmap(...) raises for an unreadable page
GetPixmapRaises(page) == page.corrupt

\* np.array(Image.open(...).convert('L')): the luminance samples, flattened
ImgArray(page) ==
    [k \in 1..page.size |->
        IF k <= page.dark THEN 0
        ELSE IF k <= page.dark + page.faint THEN 249
        ELSE IF k <= page.dark + page.faint + page.edge THEN 250
        ELSE 255]

WhiteLevel == 250

\* the comparison img_array < 250
IsNonWhite(sample) == sample < WhiteLevel

\* np.sum(img_array < 250)
NonWhitePixels(img_array) ==
    Cardinality({k \in DOMAIN img_array : IsNonWhite(img_array[k])})

ThresholdNum == 1
ThresholdDen == 100
Threshold == [num |-> ThresholdNum, den |-> ThresholdDen]

\* mutant: <= in place of <
RatioAtMost(non_white, size, threshold) ==
    non_white * threshold.den <= threshold.num * size

\* (non_white_pixels / img_array.size) < threshold, on exact rationals.
\* The code divides in float64: a quotient that equals the threshold
\* rounds to the same double as the literal 0.01, and one that differs from
\* it differs by at least 1 / (100 * size), which rounding cannot close
\* for any grid below about 10^14 samples.
RatioBelow(non_white, size, threshold) ==
    non_white * threshold.den < threshold.num * size

\* is_blank_page(page, threshold) for a page that renders
IsBlankPage(page, threshold) ==
    LET img_array == ImgArray(page)
    IN  RatioBelow(NonWhitePixels(img_array), Len(img_array), threshold)

--------------------------------------------------------------------------
(* File names and the AI answer *)

None == [some |-> FALSE, val |-> <<>>]
Some(v) == [some |-> TRUE, val |-> v]

IllegalChars == {"\\", "/", ":", "*", "?", "\"", "<", ">", "|"}
Whitespace == {" ", "\n"}

RECURSIVE LStrip(_)
LStrip(s) ==
    IF s # <<>> /\ Head(s) \in Whitespace THEN LStrip(Tail(s)) ELSE s

RECURSIVE RStrip(_)
RStrip(s) ==
    IF s # <<>> /\ s[Len(s)] \in Whitespace
    THEN RStrip(SubSeq(s, 1, Len(s) - 1)) ELSE s

\* str.strip()
Strip(s) == RStrip(LStrip(s))

\* s.split('\n')[0]
RECURSIVE FirstLine(_)
FirstLine(s) ==
    IF s = <<>> \/ Head(s) = "\n" THEN <<>>
    ELSE <<Head(s)>> \o FirstLine(Tail(s))

\* re.sub(r'[\\/:*?"<>|]', '', s)
Sanitize(s) == SelectSeq(s, LAMBDA t : t \notin IllegalChars)

\* get_smart_name: response is [raises, text]
GetSmartName(response) ==
    IF response.raises THEN None
    ELSE Some(Sanitize(FirstLine(Strip(response.text))))

\* uploaded_file.name.replace(".pdf", "")
ReplacePdf(name) == SelectSeq(name, LAMBDA t : t # ".pdf")

\* get_smart_name(model, img) or uploaded_file.name.replace(".pdf", "")
NewBaseName(smart, name) ==
    IF smart.some /\ smart.val # <<>> THEN smart.val ELSE ReplacePdf(name)

\* f"{new_base_name}.pdf"
OutName(base) == Append(base, ".pdf")

Responses ==
    { [raises |-> TRUE,  text |-> <<>>],
      [raises |-> FALSE, text |-> <<"n">>],
      [raises |-> FALSE, text |-> <<" ", "n", "/", "\n", "m">>],
      [raises |-> FALSE, text |-> <<"/">>] }

--------------------------------------------------------------------------
(* The page filter *)

\* mutant: parity flipped
IsFrontFlipped(idx) == idx % 2 = 1

\* i % 2 == 0
IsFront(idx) == idx % 2 = 0

\* mutant: the "not" is lost
KeepBackIfBlank(page) == IsBlankPage(page, Threshold)

\* not is_blank_page(doc[i])
KeepBack(page) == ~IsBlankPage(page, Threshold)

\* mutant: the page is inserted at the front of the output
InsertPdfAtFront(out, src, from_page) ==
    <<[idx |-> from_page, page |-> src[from_page + 1]]>> \o out

\* new_doc.insert_pdf(doc, from_page=i, to_page=i): the output afterwards
InsertPdf(out, src, from_page) ==
    Append(out, [idx |-> from_page, page |-> src[from_page + 1]])

\* mutant: the page is moved out of the source, leaving a blank
SourceAfterMove(src, from_page) ==
    [src EXCEPT ![from_page + 1] = WhitePage]

\* new_doc.insert_pdf(doc, ...): the source afterwards (it is only read)
SourceAfterInsert(src, from_page) == src

\* mutant: the loop stops one page early
RangeDoneEarly(idx, src) == idx >= Len(src) - 1

\* range(len(doc)) is exhausted
RangeDone(idx, src) == idx >= Len(src)

--------------------------------------------------------------------------
(* Inputs *)

RECURSIVE SeqsUpTo(_, _)
SeqsUpTo(S, n) ==
    IF n = 0 THEN {<<>>}
    ELSE LET shorter == SeqsUpTo(S, n - 1)
         IN  shorter \cup {Append(s, x) : s \in shorter, x \in S}

File(name, pages) == [name |-> name, pages |-> pages]

\* a few whole uploads, for the runs over batches
BatchFiles ==
    { File(<<"a", ".pdf">>, <<>>),
      File(<<"b", ".pdf">>, <<InkPage>>),
      File(<<"a", ".pdf", "b", ".pdf">>, <<InkPage, WhitePage>>),
      File(<<"a", ".pdf">>, <<InkPage, BoundaryPage, SpeckPage>>),
      File(<<"b", ".pdf">>, <<InkPage, CorruptPage, InkPage, InkPage>>),
      File(<<"b", ".pdf">>, <<CorruptPage, InkPage>>) }

Start(files) ==
    /\ uploaded_files = files
    /\ index = 0
    /\ pc = "for"
    /\ doc = <<>>
    /\ doc_open = FALSE
    /\ new_base_name = <<>>
    /\ new_doc = <<>>
    /\ i = 0
    /\ processed_files = <<>>
    /\ zip_file = [built |-> FALSE, entries |-> <<>>]
    /\ error = ""
    /\ ai_failed = FALSE
    /\ visited = <<>>
    /\ detector_calls = <<>>

\* a batch of whole uploads
Init == \E files \in SeqsUpTo(BatchFiles, MaxFiles) \ {<<>>} : Start(files)

\* one upload, every page pattern
InitFilter ==
    \E pages \in SeqsUpTo(PageKinds, MaxPages) :
        Start(<<File(<<"a", ".pdf">>, pages)>>)

--------------------------------------------------------------------------
(* Steps of the script *)

Raise(site) ==
    /\ pc' = "error"
    /\ error' = site

\* lines 72-77 : next upload, read and open it
ReadOpen ==
    /\ pc = "for"
    /\ index < Len(uploaded_files)
    /\ doc' = uploaded_files[index + 1].pages
    /\ doc_open' = TRUE
    /\ pc' = "name"
    /\ ai_failed' = FALSE
    /\ visited' = <<>>
    /\ detector_calls' = <<>>
    /\ UNCHANGED <<uploaded_files, index, new_base_name, new_doc, i,
                   processed_files, zip_file, error>>

\* mutant: the archive is built before the last upload is processed
BatchDoneEarly ==
    /\ pc = "for"
    /\ index >= Len(uploaded_files) - 1
    /\ pc' = "zip"
    /\ UNCHANGED <<uploaded_files, index, doc, doc_open, new_base_name,
                   new_doc, i, processed_files, zip_file, error, ai_failed,
                   visited, detector_calls>>

\* lines 72, 106 : the batch loop is exhausted
BatchDone ==
    /\ pc = "for"
    /\ index >= Len(uploaded_files)
    /\ pc' = "zip"
    /\ UNCHANGED <<uploaded_files, index, doc, doc_open, new_base_name,
                   new_doc, i, processed_files, zip_file, error, ai_failed,
                   visited, detector_calls>>

\* lines 80-85 : snapshot of page 0, AI name or fallback, empty output
Name ==
    /\ pc = "name"
    /\ IF Len(doc) = 0
       THEN /\ Raise("doc[0]")
            /\ UNCHANGED <<new_base_name, new_doc, i, ai_failed>>
       ELSE IF GetPixmapRaises(doc[1])
       THEN /\ Raise("get_pixmap:80")
            /\ UNCHANGED <<new_base_name, new_doc, i, ai_failed>>
       ELSE \E response \in Responses :
            /\ new_base_name' =
                   NewBaseName(GetSmartName(response),
                               uploaded_files[index + 1].name)
            /\ ai_failed' = response.raises
            /\ new_doc' = <<>>
            /\ i' = 0
            /\ pc' = "filter"
            /\ error' = error
    /\ UNCHANGED <<uploaded_files, index, doc, doc_open, processed_files,
                   zip_file, visited, detector_calls>>

\* lines 86-88 : a front page is copied
FilterFront ==
    /\ pc = "filter"
    /\ ~RangeDone(i, doc)
    /\ IsFront(i)
    /\ visited' = Append(visited, i)
    /\ new_doc' = InsertPdf(new_doc, doc, i)
    /\ doc' = SourceAfterInsert(doc, i)
    /\ i' = i + 1
    /\ UNCHANGED <<uploaded_files, index, pc, doc_open, new_base_name,
                   processed_files, zip_file, error, ai_failed,
                   detector_calls>>

\* lines 86, 89-91 : a back page is classified, copied if not blank
FilterBack ==
    /\ pc = "filter"
    /\ ~RangeDone(i, doc)
    /\ ~IsFront(i)
    /\ visited' = Append(visited, i)
    /\ IF GetPixmapRaises(doc[i + 1])
       THEN /\ detector_calls' =
                   Append(detector_calls,
                          [idx |-> i, raised |-> TRUE, result |-> FALSE])
            /\ Raise("get_pixmap:35")
            /\ UNCHANGED <<doc, new_doc, i>>
       ELSE /\ detector_calls' =
                   Append(detector_calls,
                          [idx |-> i, raised |-> FALSE,
                           result |-> IsBlankPage(doc[i + 1], Threshold)])
            /\ IF KeepBack(doc[i + 1])
               THEN /\ new_doc' = InsertPdf(new_doc, doc, i)
                    /\ doc' = SourceAfterInsert(doc, i)
               ELSE UNCHANGED <<new_doc, doc>>
            /\ i' = i + 1
            /\ UNCHANGED <<pc, error>>
    /\ UNCHANGED <<uploaded_files, index, doc_open, new_base_name,
                   processed_files, zip_file, ai_failed>>

\* line 86 : the page loop is exhausted
FilterDone ==
    /\ pc = "filter"
    /\ RangeDone(i, doc)
    /\ pc' = "save"
    /\ UNCHANGED <<uploaded_files, index, doc, doc_open, new_base_name,
                   new_doc, i, processed_files, zip_file, error, ai_failed,
                   visited, detector_calls>>

\* lines 94-96 : save to memory (PyMuPDF refuses to save zero pages), append
Save ==
    /\ pc = "save"
    /\ IF Len(new_doc) = 0
       THEN /\ Raise("save")
            /\ UNCHANGED processed_files
       ELSE /\ processed_files' =
                   Append(processed_files,
                          [name |-> OutName(new_base_name), data |-> new_doc])
            /\ pc' = "close"
            /\ error' = error
    /\ UNCHANGED <<uploaded_files, index, doc, doc_open, new_base_name,
                   new_doc, i, zip_file, ai_failed, visited, detector_calls>>

\* lines 98-104 : close both documents, progress, pacing delay
Close ==
    /\ pc = "close"
    /\ doc_open' = FALSE
    /\ index' = index + 1
    /\ pc' = "for"
    /\ UNCHANGED <<uploaded_files, doc, new_base_name, new_doc, i,
                   processed_files, zip_file, error, ai_failed, visited,
                   detector_calls>>

\* lines 106-119 : write every processed file into the archive
Zip ==
    /\ pc = "zip"
    /\ zip_file' = [built |-> TRUE, entries |-> processed_files]
    /\ pc' = "done"
    /\ UNCHANGED <<uploaded_files, index, doc, doc_open, new_base_name,
                   new_doc, i, processed_files, error, ai_failed, visited,
                   detector_calls>>

Next ==
    \/ ReadOpen
    \/ BatchDone
    \/ Name
    \/ FilterFront
    \/ FilterBack
    \/ FilterDone
    \/ Save
    \/ Close
    \/ Zip

Spec == Init /\ [][Next]_vars

SpecFilter == InitFilter /\ [][Next]_vars

--------------------------------------------------------------------------
(* Vocabulary of the properties *)

\* the input document D of the upload being processed
Source == uploaded_files[index + 1].pages

\* the filter loop of the current upload is running or has run to its end
Filtering == pc \in {"filter", "save", "close"}

\* the filter loop of the current upload has run to its end
Filtered == pc \in {"save", "close"}

\* the filter loop was aborted by a rendering failure in is_blank_page
Aborted == error = "get_pixmap:35"

Present(out, idx) == \E k \in 1..Len(out) : out[k].idx = idx

IsOrderedSubsequence(out, src) ==
    /\ \A k \in 1..Len(out) :
          /\ out[k].idx \in 0..(Len(src) - 1)
          /\ out[k].page = src[out[k].idx + 1]
    /\ \A k \in 1..(Len(out) - 1) : out[k].idx < out[k + 1].idx

\* number of samples of a page whose luminance is below 250
DarkerThan250(page) == page.dark + page.faint

\* is_blank_page(page, 0.01) for every page of the inputs, computed once
BlankAtDefault == [p \in PageKinds |-> IsBlankPage(p, Threshold)]

OddBelow(n) == {idx \in 0..(n - 1) : idx % 2 = 1}
EvenBelow(n) == {idx \in 0..(n - 1) : idx % 2 = 0}

\* how far the filter has decided the pages of the current upload
Decided == IF Filtered THEN Len(Source) ELSE i

--------------------------------------------------------------------------
(* C1: the pages of the output document are, at every step of the filter  *)
(* loop and in every saved result, pages of the input document at         *)
(* strictly increasing original indices: nothing is reordered, doubled    *)
(* or invented.                                                           *)
C1_OrderPreserved ==
    /\ (Filtering \/ Aborted) => IsOrderedSubsequence(new_doc, Source)
    /\ \A k \in 1..Len(processed_files) :
          IsOrderedSubsequence(processed_files[k].data,
                               uploaded_files[k].pages)

C1_Witness ==
    /\ pc = "close"
    /\ Len(Source) = 4
    /\ Len(new_doc) = 3
    /\ processed_files[1].data = new_doc

(* C2: every page at an even original index is in the output, blank or    *)
(* not and whatever was dropped before it; a 1-page document comes out    *)
(* as that one page.                                                      *)
C2_FrontsRetained ==
    /\ Filtering =>
          \A idx \in EvenBelow(Decided) : Present(new_doc, idx)
    /\ \A k \in 1..Len(processed_files) :
          \A idx \in EvenBelow(Len(uploaded_files[k].pages)) :
              Present(processed_files[k].data, idx)
    /\ (Filtered /\ Len(Source) = 1) =>
          new_doc = <<[idx |-> 0, page |-> Source[1]]>>

C2_Witness ==
    /\ pc = "close"
    /\ Source = <<InkPage, WhitePage, WhitePage>>
    /\ processed_files[1].data =
          <<[idx |-> 0, page |-> InkPage], [idx |-> 2, page |-> WhitePage]>>

(* C3: a page at an odd original index is in the output exactly when      *)
(* is_blank_page(page, 0.01) is false; pages ink, white, ink, 2 % ink     *)
(* come out as pages 0, 2, 3.                                             *)
C3_BacksFiltered ==
    /\ Filtering =>
          \A idx \in OddBelow(Decided) :
              Present(new_doc, idx) <=> ~BlankAtDefault[Source[idx + 1]]
    /\ \A k \in 1..Len(processed_files) :
          \A idx \in OddBelow(Len(uploaded_files[k].pages)) :
              Present(processed_files[k].data, idx)
                  <=> ~BlankAtDefault[uploaded_files[k].pages[idx + 1]]
    /\ (Filtered /\ Source = <<InkPage, WhitePage, InkPage, InkPage>>) =>
          [k \in 1..Len(new_doc) |-> new_doc[k].idx] = <<0, 2, 3>>

C3_Witness ==
    /\ pc = "close"
    /\ Source = <<InkPage, WhitePage, InkPage, InkPage>>
    /\ [k \in 1..Len(new_doc) |-> new_doc[k].idx] = <<0, 2, 3>>

OtherThresholds ==
    { [num |-> 1, den |-> 200], [num |-> 1, den |-> 100],
      [num |-> 1, den |-> 50], [num |-> 3, den |-> 100],
      [num |-> 3, den |-> 5] }

\* is_blank_page(page, threshold) at other thresholds, computed once
BlankAt == [p \in PageKinds, th \in OtherThresholds |-> IsBlankPage(p, th)]

(* C4: is_blank_page answers true exactly when the samples of luminance   *)
(* below 250, divided by all samples, are strictly below the threshold:   *)
(* a ratio equal to the threshold is not blank, luminance 250 is white.   *)
C4_StrictThreshold ==
    /\ \A k \in 1..Len(detector_calls) :
          LET c == detector_calls[k]
              page == doc[c.idx + 1]
          IN  ~c.raised =>
                 (c.result <=>
                     DarkerThan250(page) * ThresholdDen
                         < ThresholdNum * page.size)
    /\ \A k \in 1..Len(doc) : \A th \in OtherThresholds :
          ~doc[k].corrupt =>
             (BlankAt[doc[k], th] <=>
                 DarkerThan250(doc[k]) * th.den < th.num * doc[k].size)
    /\ \A k \in 1..Len(detector_calls) :
          LET c == detector_calls[k]
          IN  /\ doc[c.idx + 1] = BoundaryPage => ~c.result
              /\ doc[c.idx + 1] = EdgePage => c.result
              /\ doc[c.idx + 1] = FaintPage => ~c.result
              /\ doc[c.idx + 1] = SpeckPage => c.result

C4_Witness ==
    /\ Len(detector_calls) = 2
    /\ doc[2] = BoundaryPage
    /\ detector_calls[1].result = FALSE
    /\ doc[4] = EdgePage
    /\ detector_calls[2].result = TRUE

(* C5: processing a zero-page document raises no error.                   *)
C5_EmptyDocumentNoError ==
    (doc_open /\ Len(doc) = 0) => error = ""

(* C6: when rendering fails for a back page the script stops with that    *)
(* error: the page is neither dropped as blank nor kept, nothing is       *)
(* appended for the document, and no saved result ever comes from a       *)
(* document with an unreadable back page.                                 *)
C6_RenderFailureFatal ==
    /\ Aborted =>
          /\ pc = "error"
          /\ Source[i + 1].corrupt
          /\ ~Present(new_doc, i)
          /\ Len(processed_files) = index
          /\ ~zip_file.built
    /\ (Filtering /\ i < Len(Source) /\ i % 2 = 1 /\ Source[i + 1].corrupt) =>
          pc = "filter"
    /\ \A k \in 1..Len(processed_files) :
          \A idx \in OddBelow(Len(uploaded_files[k].pages)) :
              ~uploaded_files[k].pages[idx + 1].corrupt
    /\ Len(processed_files) <= index + 1

C6_Witness ==
    /\ Aborted
    /\ index = 1
    /\ Len(processed_files) = 1
    /\ Len(new_doc) = 1

\* the upload's name without its .pdf extension
BaseName(name) ==
    IF name # <<>> /\ name[Len(name)] = ".pdf"
    THEN SubSeq(name, 1, Len(name) - 1) ELSE name

(* C7: when the AI naming call raises, the document goes on to be         *)
(* filtered and its output is named after the upload's base name.         *)
C7_FallbackIsBaseName ==
    (Filtering /\ ai_failed) =>
        new_base_name = BaseName(uploaded_files[index + 1].name)

(* C8: while the source document is open it is exactly what was loaded,   *)
(* and the output starts as a new, empty document.                        *)
C8_SourceUnchanged ==
    /\ doc_open => doc = Source
    /\ (pc = "filter" /\ i = 0) => new_doc = <<>>
    /\ Filtering => Len(new_doc) <= i

C8_Witness ==
    /\ pc = "close"
    /\ doc_open
    /\ Len(doc) = 4
    /\ Len(new_doc) = 4

\* the filtered form of a document, written down directly
Kept(pages) ==
    {idx \in 0..(Len(pages) - 1) :
        idx % 2 = 0 \/ ~BlankAtDefault[pages[idx + 1]]}

IsOutputOf(data, pages) ==
    /\ IsOrderedSubsequence(data, pages)
    /\ {data[k].idx : k \in 1..Len(data)} = Kept(pages)

(* C9: processed_files always holds the outputs of the first uploads, one *)
(* per upload and in upload order; only the current upload is in work;    *)
(* the ZIP is built after the last upload has been appended.              *)
C9_OneDocumentAtATime ==
    /\ Len(processed_files) = index + (IF pc = "close" THEN 1 ELSE 0)
    /\ index <= Len(uploaded_files)
    /\ \A k \in 1..Len(processed_files) :
          IsOutputOf(processed_files[k].data, uploaded_files[k].pages)
    /\ doc_open => (index < Len(uploaded_files) /\ doc = Source)
    /\ doc_open <=> (pc \in {"name", "filter", "save", "close"}
                        \/ (pc = "error" /\ error # ""))
    /\ pc \in {"zip", "done"} => Len(processed_files) = Len(uploaded_files)
    /\ zip_file.built <=> pc = "done"
    /\ zip_file.built => zip_file.entries = processed_files

C9_Witness ==
    /\ zip_file.built
    /\ Len(uploaded_files) = 2
    /\ Len(zip_file.entries) = 2
    /\ zip_file.entries[1].data # zip_file.entries[2].data

Upto(n) == [k \in 1..n |-> k - 1]

(* C10, as stated: once the filter loop of a document has stopped, every  *)
(* page 0..page_count-1 has been visited once, in order, and the detector *)
(* has been called once for each odd index.                               *)
C10_AllPagesVisited ==
    (Filtered \/ Aborted) =>
        /\ visited = Upto(Len(Source))
        /\ Len(detector_calls) = Cardinality(OddBelow(Len(Source)))

(* C10, amended: pages are visited in increasing index order from 0, each *)
(* once; the detector is called once for each odd index visited, in       *)
(* order, never for an even one; the loop ends after page_count           *)
(* iterations, or at the first back page whose rendering raises.          *)
C10_VisitOrder ==
    /\ visited = Upto(Len(visited))
    /\ Len(visited) <= Len(doc)
    /\ Len(detector_calls) = Len(visited) \div 2
    /\ \A k \in 1..Len(detector_calls) :
          /\ detector_calls[k].idx = 2 * k - 1
          /\ detector_calls[k].raised => (k = Len(detector_calls) /\ Aborted)
    /\ pc = "filter" => Len(visited) = i
    /\ Filtered => (i = Len(Source) /\ visited = Upto(Len(Source)))
    /\ Aborted =>
          /\ Len(visited) = i + 1
          /\ i % 2 = 1
          /\ Source[i + 1].corrupt
          /\ detector_calls[Len(detector_calls)].raised
          /\ \A idx \in OddBelow(i) : ~Source[idx + 1].corrupt

C10_Witness ==
    /\ pc = "save"
    /\ Len(Source) = 4
    /\ visited = <<0, 1, 2, 3>>
    /\ Len(detector_calls) = 2

==========================================================================
